---- MODULE Spec2Model ----
(***************************************************************************)
(* ffufai: a wrapper that probes a target URL, asks an LLM provider for    *)
(* likely file extensions and runs ffuf with "-e <extensions>" appended.   *)
(* The model follows main() of src/ffufai.py statement by statement; the   *)
(* network, the environment and the child process are the nondeterministic *)
(* environment of the run.                                                 *)
(***************************************************************************)
EXTENDS Integers, Sequences, FiniteSets, TLC

VARIABLES argv, environ, pc, args, unknown, url, headers, provider,
          model_or_key, extensions_data, extensions, ffuf_command, stdout,
          calls, head_request, head_response, llm_request, llm_response,
          raised

vars == <<argv, environ, pc, args, unknown, url, headers, provider,
          model_or_key, extensions_data, extensions, ffuf_command, stdout,
          calls, head_request, head_response, llm_request, llm_response,
          raised>>

(***************************************************************************)
(* Bounds of the model.                                                    *)
(***************************************************************************)
\* longest extension list a provider returns
MaxExtLen == 2
\* largest value given to --max-extensions on the command line
MaxM == 2
\* magnitude of the smallest (negative) value given to --max-extensions
NegM == 1
\* integers int() is asked to recognise lie in -MaxInt..MaxInt
MaxInt == 9

(***************************************************************************)
(* Generic helpers: Python list and str operations used by the program.    *)
(***************************************************************************)
Min(a, b) == IF a < b THEN a ELSE b

Max(a, b) == IF a > b THEN a ELSE b

Digits == <<"0", "1", "2", "3", "4", "5", "6", "7", "8", "9">>

RECURSIVE NatStr(_)
NatStr(n) == IF n < 10 THEN Digits[n + 1]
             ELSE NatStr(n \div 10) \o Digits[(n % 10) + 1]

\* decimal text of an integer, as typed on the command line
IntStr(n) == IF n < 0 THEN "-" \o NatStr(-n) ELSE NatStr(n)

\* int(tok) of argparse's type=int: the value, or a failed conversion
ParseInt(tok) ==
    IF \E n \in -MaxInt..MaxInt : IntStr(n) = tok
    THEN [ok |-> TRUE, n |-> CHOOSE n \in -MaxInt..MaxInt : IntStr(n) = tok]
    ELSE [ok |-> FALSE, n |-> 0]

\* seq[:m] of Python: a negative m counts from the end
SliceTo(seq, m) ==
    IF m >= 0 THEN SubSeq(seq, 1, Min(m, Len(seq)))
    ELSE SubSeq(seq, 1, Max(Len(seq) + m, 0))

\* ','.join(seq)
RECURSIVE CommaJoin(_)
CommaJoin(seq) ==
    IF Len(seq) = 0 THEN ""
    ELSE IF Len(seq) = 1 THEN seq[1]
    ELSE seq[1] \o "," \o CommaJoin(Tail(seq))

\* seq.index(x): the first position of x (1-based here), 0 for ValueError
ListIndex(seq, x) ==
    IF \E i \in 1..Len(seq) : seq[i] = x
    THEN CHOOSE i \in 1..Len(seq) : seq[i] = x /\ \A j \in 1..(i - 1) : seq[j] # x
    ELSE 0

RECURSIVE Concat(_)
Concat(pieces) == IF Len(pieces) = 0 THEN ""
                  ELSE pieces[1] \o Concat(Tail(pieces))

RECURSIVE Without(_, _)
Without(pieces, x) ==
    IF Len(pieces) = 0 THEN <<>>
    ELSE IF pieces[1] = x THEN Without(Tail(pieces), x)
    ELSE <<pieces[1]>> \o Without(Tail(pieces), x)

(***************************************************************************)
(* URLs.  A URL is the text of one command-line token; to look inside it   *)
(* the text is cut into pieces: an optional scheme-and-host piece, "/",    *)
(* "?", the placeholder "FUZZ" and plain words.                            *)
(***************************************************************************)
SchemeNetlocs == {"https://example.com"}

UrlShapes ==
    { <<"https://example.com", "/", "docs", "/", "FUZZ">>,
      <<"https://example.com", "/", "FUZZ", "/", "docs">>,
      <<"https://example.com", "/", "docs", "?", "FUZZ">>,
      <<"https://example.com", "/", "docs">>,
      <<"example.com", "/", "FUZZ">> }

UrlTokens == { Concat(p) : p \in UrlShapes }

\* the pieces of a token; a token that is no known URL is one plain word
Pieces(tok) ==
    IF \E p \in UrlShapes : Concat(p) = tok
    THEN CHOOSE p \in UrlShapes : Concat(p) = tok
    ELSE <<tok>>

\* the text up to (not including) the first "?"
RECURSIVE UpToQuery(_)
UpToQuery(pieces) ==
    IF Len(pieces) = 0 \/ pieces[1] = "?" THEN <<>>
    ELSE <<pieces[1]>> \o UpToQuery(Tail(pieces))

HasScheme(pieces) == Len(pieces) > 0 /\ pieces[1] \in SchemeNetlocs

\* urlparse(url).path
UrlPath(pieces) ==
    UpToQuery(IF HasScheme(pieces) THEN Tail(pieces) ELSE pieces)

\* path.split('/')[-1]: what follows the last "/" of the path
RECURSIVE LastSegment(_)
LastSegment(path) ==
    IF Len(path) = 0 THEN <<>>
    ELSE IF path[Len(path)] = "/" THEN <<>>
    ELSE LastSegment(SubSeq(path, 1, Len(path) - 1)) \o <<path[Len(path)]>>

\* 'FUZZ' not in path_parts[-1]
FuzzNotAtEnd(u) ==
    LET seg == LastSegment(UrlPath(Pieces(u)))
    IN  ~ \E i \in 1..Len(seg) : seg[i] = "FUZZ"

\* url.replace('FUZZ', '')
BaseUrl(u) == Concat(Without(Pieces(u), "FUZZ"))

(***************************************************************************)
(* Command line.                                                           *)
(***************************************************************************)
DefaultFfufPath == "ffuf"

DefaultMaxExtensions == 4

WrapperOptions == {"--ffuf-path", "--max-extensions"}

\* tokens argparse takes for an option and never for an option's value
OptionTokens == WrapperOptions \cup {"-u", "-w"}

DefaultArgs == [ffuf_path |-> DefaultFfufPath,
                max_extensions |-> DefaultMaxExtensions]

\* parser.parse_known_args(): the two wrapper options are taken out with
\* their values, every other token is kept in order; a wrapper option with
\* no value, or a --max-extensions value that is no integer, ends the run
\* with a usage error
RECURSIVE ParseKnownArgs(_, _, _)
ParseKnownArgs(rest, ns, extras) ==
    IF Len(rest) = 0 THEN [ok |-> TRUE, args |-> ns, unknown |-> extras]
    ELSE IF rest[1] \in WrapperOptions
    THEN IF Len(rest) < 2 \/ rest[2] \in OptionTokens
         THEN [ok |-> FALSE, args |-> ns, unknown |-> extras]
         ELSE IF rest[1] = "--ffuf-path"
         THEN ParseKnownArgs(SubSeq(rest, 3, Len(rest)),
                             [ns EXCEPT !.ffuf_path = rest[2]], extras)
         ELSE IF ParseInt(rest[2]).ok
         THEN ParseKnownArgs(SubSeq(rest, 3, Len(rest)),
                             [ns EXCEPT !.max_extensions = ParseInt(rest[2]).n],
                             extras)
         ELSE [ok |-> FALSE, args |-> ns, unknown |-> extras]
    ELSE ParseKnownArgs(Tail(rest), ns, Append(extras, rest[1]))

LeadingTokens == { <<>>, <<"-w", "wl.txt">> }

WrapperTokens ==
    { <<>>, <<"--ffuf-path", "/opt/ffuf">>, <<"--max-extensions">>,
      <<"--max-extensions", "many">> }
    \cup { <<"--max-extensions", IntStr(m)>> : m \in (-NegM)..MaxM }

TrailingTokens ==
    { <<>>, <<"-u">> } \cup { <<"-u", u>> : u \in UrlTokens }

ArgvSet == { a \o w \o b : a \in LeadingTokens, w \in WrapperTokens,
                           b \in TrailingTokens }

(***************************************************************************)
(* Environment variables and provider selection.                           *)
(***************************************************************************)
EnvNames == {"OLLAMA_MODEL", "ANTHROPIC_API_KEY", "OPENAI_API_KEY"}

EnvText == [OLLAMA_MODEL |-> "llama3", ANTHROPIC_API_KEY |-> "sk-ant",
            OPENAI_API_KEY |-> "sk-oai"]

\* a variable is unset, set to the empty string, or set to its text
EnvSettings(n) == { [set |-> FALSE, val |-> ""], [set |-> TRUE, val |-> ""],
                    [set |-> TRUE, val |-> EnvText[n]] }

Environs == { e \in [EnvNames -> UNION { EnvSettings(n) : n \in EnvNames }] :
                \A n \in EnvNames : e[n] \in EnvSettings(n) }

\* truth value of os.getenv(n): None and '' are false
Truthy(v) == v.set /\ v.val # ""

get_llm_provider_swapped(env) ==
    IF Truthy(env["OLLAMA_MODEL"])
    THEN [raised |-> FALSE, provider |-> "ollama",
          model_or_key |-> env["OLLAMA_MODEL"].val]
    ELSE IF Truthy(env["OPENAI_API_KEY"])
    THEN [raised |-> FALSE, provider |-> "openai",
          model_or_key |-> env["OPENAI_API_KEY"].val]
    ELSE IF Truthy(env["ANTHROPIC_API_KEY"])
    THEN [raised |-> FALSE, provider |-> "anthropic",
          model_or_key |-> env["ANTHROPIC_API_KEY"].val]
    ELSE [raised |-> TRUE, provider |-> "", model_or_key |-> ""]

get_llm_provider(env) ==
    IF Truthy(env["OLLAMA_MODEL"])
    THEN [raised |-> FALSE, provider |-> "ollama",
          model_or_key |-> env["OLLAMA_MODEL"].val]
    ELSE IF Truthy(env["ANTHROPIC_API_KEY"])
    THEN [raised |-> FALSE, provider |-> "anthropic",
          model_or_key |-> env["ANTHROPIC_API_KEY"].val]
    ELSE IF Truthy(env["OPENAI_API_KEY"])
    THEN [raised |-> FALSE, provider |-> "openai",
          model_or_key |-> env["OPENAI_API_KEY"].val]
    ELSE [raised |-> TRUE, provider |-> "", model_or_key |-> ""]

(***************************************************************************)
(* Header probe.                                                           *)
(***************************************************************************)
ErrorHeaders == ("Header" :> "Error fetching headers.")

ResponseHeaderSets ==
    { ("Content-Type" :> "application/pdf"),
      ("Server" :> "nginx") @@ ("X-Powered-By" :> "PHP") }

NoResponse == [ok |-> FALSE, headers |-> <<>>]

\* what requests.head() can do for a URL: a URL without a scheme is refused
\* by requests (a RequestException); any other may fail or be answered
HeadOutcomes(u) ==
    { [ok |-> FALSE, headers |-> <<>>] }
    \cup (IF HasScheme(Pieces(u))
          THEN { [ok |-> TRUE, headers |-> h] : h \in ResponseHeaderSets }
          ELSE {})

\* dict(response.headers)
Dict(h) == [k \in DOMAIN h |-> h[k]]

get_headers_empty_on_error(resp) ==
    IF resp.ok THEN Dict(resp.headers) ELSE <<>>

\* value returned by get_headers for the outcome of requests.head()
get_headers(resp) ==
    IF resp.ok THEN Dict(resp.headers) ELSE ErrorHeaders

(***************************************************************************)
(* Provider replies and their decoding.                                    *)
(***************************************************************************)
ExtNames == {".pdf", ".ppt"}

ExtLists == UNION { [1..n -> ExtNames] : n \in 0..MaxExtLen }

\* a reply text: not JSON at all, or the JSON value it denotes
Garbage == [valid |-> FALSE, kind |-> "null", has_extensions |-> FALSE,
            ext_is_list |-> FALSE, extensions |-> <<>>]

Texts ==
    { Garbage,
      [valid |-> TRUE, kind |-> "null", has_extensions |-> FALSE,
       ext_is_list |-> FALSE, extensions |-> <<>>],
      [valid |-> TRUE, kind |-> "array", has_extensions |-> FALSE,
       ext_is_list |-> FALSE, extensions |-> <<>>],
      [valid |-> TRUE, kind |-> "object", has_extensions |-> FALSE,
       ext_is_list |-> FALSE, extensions |-> <<>>],
      [valid |-> TRUE, kind |-> "object", has_extensions |-> TRUE,
       ext_is_list |-> FALSE, extensions |-> <<>>] }
    \cup { [valid |-> TRUE, kind |-> "object", has_extensions |-> TRUE,
            ext_is_list |-> TRUE, extensions |-> e] : e \in ExtLists }

\* Python None, which json.loads also gives for the text "null"
None == [kind |-> "null", has_extensions |-> FALSE, ext_is_list |-> FALSE,
         extensions |-> <<>>]

\* json.loads(text): the decoded value, or JSONDecodeError
JsonLoads(text) ==
    IF text.valid
    THEN [exc |-> "", value |-> [kind |-> text.kind,
                                 has_extensions |-> text.has_extensions,
                                 ext_is_list |-> text.ext_is_list,
                                 extensions |-> text.extensions]]
    ELSE [exc |-> "JSONDecodeError", value |-> None]

NoReply == [transport |-> "none", envelope_valid |-> FALSE,
            has_response |-> FALSE, text |-> Garbage]

\* replies of the OpenAI and Anthropic SDK calls: an API exception, or a
\* message whose text is any of Texts
SdkReplies ==
    { [transport |-> t, envelope_valid |-> FALSE, has_response |-> FALSE,
       text |-> Garbage] : t \in {"connection_error", "http_error"} }
    \cup { [transport |-> "ok", envelope_valid |-> TRUE, has_response |-> TRUE,
            text |-> x] : x \in Texts }

\* replies of the POST to the Ollama endpoint: a transport failure, an error
\* status, or a body that is a JSON envelope (or not) with a 'response' text
OllamaReplies ==
    { [transport |-> t, envelope_valid |-> FALSE, has_response |-> FALSE,
       text |-> Garbage] : t \in {"connection_error", "http_error"} }
    \cup { [transport |-> "ok", envelope_valid |-> FALSE, has_response |-> FALSE,
            text |-> Garbage],
           [transport |-> "ok", envelope_valid |-> TRUE, has_response |-> FALSE,
            text |-> Garbage] }
    \cup { [transport |-> "ok", envelope_valid |-> TRUE, has_response |-> TRUE,
            text |-> x] : x \in Texts }

\* get_ai_extensions, OpenAI and Anthropic branches: the SDK call is not
\* guarded, its text is decoded once
SdkExtensions(reply) ==
    IF reply.transport # "ok"
    THEN [exc |-> "APIError", value |-> None, printed |-> <<>>]
    ELSE [exc |-> JsonLoads(reply.text).exc,
          value |-> JsonLoads(reply.text).value, printed |-> <<>>]

\* get_ai_extensions, Ollama branch: RequestException (from post or
\* raise_for_status) is caught and None returned; the body is decoded twice
OllamaExtensions(reply) ==
    IF reply.transport # "ok"
    THEN [exc |-> "", value |-> None,
          printed |-> <<"Error communicating with Ollama">>]
    ELSE IF ~reply.envelope_valid
    THEN [exc |-> "JSONDecodeError", value |-> None, printed |-> <<>>]
    ELSE IF ~reply.has_response
    THEN [exc |-> "KeyError", value |-> None, printed |-> <<>>]
    ELSE [exc |-> JsonLoads(reply.text).exc,
          value |-> JsonLoads(reply.text).value, printed |-> <<>>]

GetItemExtensionsOrEmpty(data) ==
    IF data.kind = "array" THEN [exc |-> "TypeError", list |-> <<>>]
    ELSE IF ~data.has_extensions THEN [exc |-> "", list |-> <<>>]
    ELSE IF ~data.ext_is_list THEN [exc |-> "TypeError", list |-> <<>>]
    ELSE [exc |-> "", list |-> data.extensions]

\* extensions_data['extensions'][...] on a value that is not None: a JSON
\* array cannot be indexed by a key, an object without the key raises
\* KeyError, a number cannot be sliced
GetItemExtensions(data) ==
    IF data.kind = "array" THEN [exc |-> "TypeError", list |-> <<>>]
    ELSE IF ~data.has_extensions THEN [exc |-> "KeyError", list |-> <<>>]
    ELSE IF ~data.ext_is_list THEN [exc |-> "TypeError", list |-> <<>>]
    ELSE [exc |-> "", list |-> data.extensions]

CaughtJsonOnly == {"JSONDecodeError"}

\* except (json.JSONDecodeError, KeyError)
CaughtInMain == {"JSONDecodeError", "KeyError"}

CaughtValueErrorOnly == {"ValueError"}

\* except (ValueError, IndexError)
CaughtAtUrlLookup == {"ValueError", "IndexError"}

\* url_index = unknown.index('-u') + 1; url = unknown[url_index]
UrlLookup(extras) ==
    IF ListIndex(extras, "-u") = 0 THEN [exc |-> "ValueError", url |-> ""]
    ELSE IF ListIndex(extras, "-u") + 1 > Len(extras)
    THEN [exc |-> "IndexError", url |-> ""]
    ELSE [exc |-> "", url |-> extras[ListIndex(extras, "-u") + 1]]

FfufCommandFromArgv(path, extras, exts) ==
    <<path>> \o argv \o <<"-e", exts>>

\* [args.ffuf_path] + unknown + ['-e', extensions]
FfufCommand(path, extras, exts) ==
    <<path>> \o extras \o <<"-e", exts>>

(***************************************************************************)
(* The run of main().                                                      *)
(***************************************************************************)
\* a local that has not been assigned yet
Unset == [kind |-> "unset", has_extensions |-> FALSE, ext_is_list |-> FALSE,
          extensions |-> <<>>]

NoRequest == [provider |-> "", model_or_key |-> "", url |-> "",
              headers |-> <<>>, max_extensions |-> 0]

ConfigError == "ValueError: No API key or Ollama model found."

Init ==
    /\ argv \in ArgvSet
    /\ environ \in Environs
    /\ pc = "parse"
    /\ args = DefaultArgs
    /\ unknown = <<>>
    /\ url = ""
    /\ headers = <<>>
    /\ provider = ""
    /\ model_or_key = ""
    /\ extensions_data = Unset
    /\ extensions = ""
    /\ ffuf_command = <<>>
    /\ stdout = <<>>
    /\ calls = <<>>
    /\ head_request = ""
    /\ head_response = NoResponse
    /\ llm_request = NoRequest
    /\ llm_response = NoReply
    /\ raised = ""

\* args, unknown = parser.parse_known_args()
ParseArgs ==
    /\ pc = "parse"
    /\ LET r == ParseKnownArgs(argv, DefaultArgs, <<>>)
       IN  IF r.ok
           THEN /\ args' = r.args
                /\ unknown' = r.unknown
                /\ pc' = "find_url"
           ELSE /\ pc' = "usage_exit"
                /\ UNCHANGED <<args, unknown>>
    /\ UNCHANGED <<argv, environ, url, headers, provider, model_or_key,
                   extensions_data, extensions, ffuf_command, stdout, calls,
                   head_request, head_response, llm_request, llm_response,
                   raised>>

\* the try block that finds the token after '-u'
FindUrl ==
    /\ pc = "find_url"
    /\ LET r == UrlLookup(unknown)
       IN  IF r.exc = ""
           THEN /\ url' = r.url
                /\ pc' = "check_fuzz"
                /\ UNCHANGED <<stdout, raised>>
           ELSE IF r.exc \in CaughtAtUrlLookup
           THEN /\ stdout' = Append(stdout, "Error: -u URL argument is required.")
                /\ pc' = "returned"
                /\ UNCHANGED <<url, raised>>
           ELSE /\ raised' = r.exc
                /\ pc' = "raised"
                /\ UNCHANGED <<url, stdout>>
    /\ UNCHANGED <<argv, environ, args, unknown, headers, provider,
                   model_or_key, extensions_data, extensions, ffuf_command,
                   calls, head_request, head_response, llm_request,
                   llm_response>>

CheckFuzzStops ==
    /\ pc = "check_fuzz"
    /\ stdout' = IF FuzzNotAtEnd(url)
                 THEN Append(stdout, "Warning: FUZZ keyword is not at the end of the URL path.")
                 ELSE stdout
    /\ pc' = IF FuzzNotAtEnd(url) THEN "returned" ELSE "get_headers"
    /\ UNCHANGED <<argv, environ, args, unknown, url, headers, provider,
                   model_or_key, extensions_data, extensions, ffuf_command,
                   calls, head_request, head_response, llm_request,
                   llm_response, raised>>

\* the warning about the placeholder's position
CheckFuzz ==
    /\ pc = "check_fuzz"
    /\ stdout' = IF FuzzNotAtEnd(url)
                 THEN Append(stdout, "Warning: FUZZ keyword is not at the end of the URL path.")
                 ELSE stdout
    /\ pc' = "get_headers"
    /\ UNCHANGED <<argv, environ, args, unknown, url, headers, provider,
                   model_or_key, extensions_data, extensions, ffuf_command,
                   calls, head_request, head_response, llm_request,
                   llm_response, raised>>

\* base_url = url.replace('FUZZ', ''); headers = get_headers(base_url)
GetHeaders ==
    /\ pc = "get_headers"
    /\ \E resp \in HeadOutcomes(BaseUrl(url)) :
         /\ head_request' = BaseUrl(url)
         /\ head_response' = resp
         /\ headers' = get_headers(resp)
         /\ stdout' = IF resp.ok THEN stdout
                      ELSE Append(stdout, "Error fetching headers")
    /\ calls' = Append(calls, "HEAD")
    /\ pc' = "get_llm_provider"
    /\ UNCHANGED <<argv, environ, args, unknown, url, provider, model_or_key,
                   extensions_data, extensions, ffuf_command, llm_request,
                   llm_response, raised>>

\* provider, model_or_key = get_llm_provider()
GetLlmProvider ==
    /\ pc = "get_llm_provider"
    /\ LET r == get_llm_provider(environ)
       IN  IF r.raised
           THEN /\ raised' = ConfigError
                /\ pc' = "raised"
                /\ UNCHANGED <<provider, model_or_key>>
           ELSE /\ provider' = r.provider
                /\ model_or_key' = r.model_or_key
                /\ pc' = "get_ai_extensions"
                /\ UNCHANGED raised
    /\ UNCHANGED <<argv, environ, args, unknown, url, headers,
                   extensions_data, extensions, ffuf_command, stdout, calls,
                   head_request, head_response, llm_request, llm_response>>

\* the call get_ai_extensions(url, headers, provider, model_or_key,
\* args.max_extensions) inside main's try block, for a reply of the provider
\* and what the provider's branch makes of it
Query(reply, r) ==
    /\ llm_request' = [provider |-> provider, model_or_key |-> model_or_key,
                       url |-> url, headers |-> headers,
                       max_extensions |-> args.max_extensions]
    /\ llm_response' = reply
    /\ calls' = Append(calls, "LLM")
    /\ IF r.exc = ""
       THEN /\ extensions_data' = r.value
            /\ stdout' = stdout \o r.printed
            /\ pc' = "join"
            /\ UNCHANGED raised
       ELSE IF r.exc \in CaughtInMain
       THEN /\ stdout' = Append(stdout \o r.printed, "Error parsing AI response.")
            /\ pc' = "returned"
            /\ UNCHANGED <<extensions_data, raised>>
       ELSE /\ raised' = r.exc
            /\ stdout' = stdout \o r.printed
            /\ pc' = "raised"
            /\ UNCHANGED extensions_data
    /\ UNCHANGED <<argv, environ, args, unknown, url, headers, provider,
                   model_or_key, extensions, ffuf_command, head_request,
                   head_response>>

CallOpenAI ==
    /\ pc = "get_ai_extensions"
    /\ provider = "openai"
    /\ \E reply \in SdkReplies : Query(reply, SdkExtensions(reply))

CallAnthropic ==
    /\ pc = "get_ai_extensions"
    /\ provider = "anthropic"
    /\ \E reply \in SdkReplies : Query(reply, SdkExtensions(reply))

CallOllama ==
    /\ pc = "get_ai_extensions"
    /\ provider = "ollama"
    /\ \E reply \in OllamaReplies : Query(reply, OllamaExtensions(reply))

\* the rest of the try block: the None test, the print, the slice and join
JoinExtensions ==
    /\ pc = "join"
    /\ IF extensions_data = None
       THEN /\ pc' = "returned"
            /\ UNCHANGED <<extensions, stdout, raised>>
       ELSE LET g == GetItemExtensions(extensions_data)
            IN  IF g.exc = ""
                THEN /\ extensions' = CommaJoin(SliceTo(g.list, args.max_extensions))
                     /\ stdout' = Append(stdout, "extensions_data")
                     /\ pc' = "run_ffuf"
                     /\ UNCHANGED raised
                ELSE IF g.exc \in CaughtInMain
                THEN /\ stdout' = stdout \o <<"extensions_data",
                                              "Error parsing AI response.">>
                     /\ pc' = "returned"
                     /\ UNCHANGED <<extensions, raised>>
                ELSE /\ raised' = g.exc
                     /\ stdout' = Append(stdout, "extensions_data")
                     /\ pc' = "raised"
                     /\ UNCHANGED extensions
    /\ UNCHANGED <<argv, environ, args, unknown, url, headers, provider,
                   model_or_key, extensions_data, ffuf_command, calls,
                   head_request, head_response, llm_request, llm_response>>

\* ffuf_command = ...; subprocess.run(ffuf_command)
RunFfuf ==
    /\ pc = "run_ffuf"
    /\ ffuf_command' = FfufCommand(args.ffuf_path, unknown, extensions)
    /\ calls' = Append(calls, "CHILD")
    /\ pc' = "returned"
    /\ UNCHANGED <<argv, environ, args, unknown, url, headers, provider,
                   model_or_key, extensions_data, extensions, stdout,
                   head_request, head_response, llm_request, llm_response,
                   raised>>

Next ==
    \/ ParseArgs
    \/ FindUrl
    \/ CheckFuzz
    \/ GetHeaders
    \/ GetLlmProvider
    \/ CallOpenAI
    \/ CallAnthropic
    \/ CallOllama
    \/ JoinExtensions
    \/ RunFfuf

Spec == Init /\ [][Next]_vars

(***************************************************************************)
(* Properties.                                                             *)
(***************************************************************************)
Terminal == {"returned", "usage_exit", "raised"}

Has(seq, x) == \E i \in 1..Len(seq) : seq[i] = x

\* a provider signal counts as present when its variable holds a non-empty
\* text
Present(n) == environ[n].set /\ environ[n].val # ""

\* the first k entries of a sequence, none when k is not positive
FirstN(seq, k) == IF k <= 0 THEN <<>> ELSE SubSeq(seq, 1, Min(k, Len(seq)))

\* C1: when none of OLLAMA_MODEL, ANTHROPIC_API_KEY, OPENAI_API_KEY is set,
\* the configuration error is raised with no HTTP request issued before it
\* (not even the header probe).
C1_ConfigErrorBeforeAnyHttp ==
    ((\A n \in EnvNames : ~environ[n].set) /\ raised = ConfigError)
        => calls = <<>>

\* the pass-through list has no '-u', or its first '-u' is its last token
NoUrlGiven ==
    \/ \A i \in 1..Len(unknown) : unknown[i] # "-u"
    \/ /\ Len(unknown) > 0
       /\ unknown[Len(unknown)] = "-u"
       /\ \A i \in 1..(Len(unknown) - 1) : unknown[i] # "-u"

\* C2: for a pass-through list with no '-u', or whose first '-u' is the last
\* token, main prints the error and returns: no header probe, no provider
\* call, no child process, no exception.
C2_MissingUrlReturnsEarly ==
    (pc \notin {"parse", "usage_exit"} /\ NoUrlGiven)
        => /\ calls = <<>>
           /\ raised = ""
           /\ ffuf_command = <<>>
           /\ pc \in {"find_url", "returned"}
           /\ pc = "returned"
                => stdout = <<"Error: -u URL argument is required.">>

C2_Witness ==
    /\ pc = "returned"
    /\ Len(unknown) = 3
    /\ unknown[3] = "-u"
    /\ stdout = <<"Error: -u URL argument is required.">>

\* C3: the '-e' value given to the child process is the comma-join of exactly
\* the first min(max_extensions, len(E)) entries of the provider's list E, for
\* every max_extensions the parser accepts, zero and negative ones too, so
\* never more than max_extensions entries are used.
C3_TruncatesToMaxExtensions ==
    Has(calls, "CHILD")
        => /\ ffuf_command[Len(ffuf_command)]
                = CommaJoin(FirstN(llm_response.text.extensions,
                                   Min(args.max_extensions,
                                       Len(llm_response.text.extensions))))
           /\ \E k \in 0..Max(args.max_extensions, 0) :
                ffuf_command[Len(ffuf_command)]
                    = CommaJoin(FirstN(llm_response.text.extensions, k))

\* positions of argv that hold neither a wrapper option nor its value
KeptPositions ==
    { i \in 1..Len(argv) :
        /\ argv[i] \notin WrapperOptions
        /\ i = 1 \/ argv[i - 1] \notin WrapperOptions }

\* the tokens of argv at the kept positions, in their order
KeptTokens ==
    [k \in 1..Cardinality(KeptPositions) |->
        argv[CHOOSE i \in KeptPositions :
                Cardinality({j \in KeptPositions : j < i}) = k - 1]]

\* the value of the last --ffuf-path on the command line, "ffuf" without one
GivenFfufPath ==
    IF \E i \in 1..(Len(argv) - 1) : argv[i] = "--ffuf-path"
    THEN argv[1 + CHOOSE i \in 1..(Len(argv) - 1) :
                  /\ argv[i] = "--ffuf-path"
                  /\ \A j \in (i + 1)..Len(argv) : argv[j] # "--ffuf-path"]
    ELSE "ffuf"

\* C4: the child's argument vector is the fuzzer path, then every
\* pass-through token unchanged and in order (with '-u' and the URL, FUZZ
\* intact), then '-e', then the joined extensions; the wrapper's own options
\* and their values are not in it.
C4_ChildArgv ==
    Has(calls, "CHILD")
        => /\ ffuf_command = <<GivenFfufPath>> \o KeptTokens \o <<"-e", extensions>>
           /\ \A i \in 1..Len(ffuf_command) : ffuf_command[i] \notin WrapperOptions
           /\ \E i \in 2..(Len(ffuf_command) - 3) :
                /\ ffuf_command[i] = "-u"
                /\ ffuf_command[i + 1] = url
                /\ url \in UrlTokens

C4_Witness ==
    /\ Has(calls, "CHILD")
    /\ Has(argv, "--max-extensions")
    /\ argv[1] = "-w"
    /\ url = "https://example.com/docs/FUZZ"
    /\ Len(ffuf_command) = 7

\* C5: after a failed header probe the run goes on and the headers given to
\* the provider query are exactly {"Header": "Error fetching headers."};
\* after a successful probe they are exactly the response's headers.
C5_HeadersPassedDownstream ==
    /\ Has(calls, "LLM")
         => /\ head_response.ok => llm_request.headers = head_response.headers
            /\ ~head_response.ok
                 => /\ llm_request.headers = ErrorHeaders
                    /\ DOMAIN llm_request.headers = {"Header"}
                    /\ llm_request.headers["Header"] = "Error fetching headers."
    /\ (/\ Has(calls, "HEAD")
        /\ ~head_response.ok
        /\ \E n \in EnvNames : Present(n))
         => (pc \in Terminal => Has(calls, "LLM"))

C5_Witness ==
    /\ Has(calls, "LLM")
    /\ ~head_response.ok
    /\ head_request = "https://example.com/docs/"
    /\ llm_request.headers = ErrorHeaders

\* a reply whose text is not valid JSON, or decodes to an object without the
\* 'extensions' key (for Ollama: the body, or the text in its 'response')
UnparsableReply(r) ==
    /\ r.transport = "ok"
    /\ \/ ~r.envelope_valid
       \/ ~r.has_response
       \/ ~r.text.valid
       \/ r.text.kind = "object" /\ ~r.text.has_extensions

\* C6: for each provider, a reply that is not valid JSON or lacks the
\* 'extensions' key makes the run print the parse error and end without
\* invoking the child process.
C6_ParseErrorEndsRun ==
    UnparsableReply(llm_response)
        => /\ ~Has(calls, "CHILD")
           /\ raised = ""
           /\ pc \in {"join", "returned"}
           /\ pc = "returned"
                => /\ Len(stdout) >= 1
                   /\ stdout[Len(stdout)] = "Error parsing AI response."

C6_Witness ==
    /\ provider = "anthropic"
    /\ llm_response.text.valid
    /\ llm_response.text.kind = "object"
    /\ ~llm_response.text.has_extensions
    /\ pc = "returned"
    /\ stdout[Len(stdout)] = "Error parsing AI response."

\* provider selection has run
Selected ==
    \/ pc \in {"get_ai_extensions", "join", "run_ffuf"}
    \/ pc \in {"returned", "raised"} /\ Has(calls, "HEAD")

\* C7: selection yields exactly one provider by the precedence OLLAMA_MODEL,
\* then ANTHROPIC_API_KEY, then OPENAI_API_KEY, carrying the winning
\* variable's value; the configuration error is raised exactly when all three
\* are absent; the selection stays as made for the rest of the run.
C7_ProviderPrecedence ==
    Selected
        => /\ provider = "ollama" <=> Present("OLLAMA_MODEL")
           /\ provider = "anthropic"
                <=> (~Present("OLLAMA_MODEL") /\ Present("ANTHROPIC_API_KEY"))
           /\ provider = "openai"
                <=> /\ ~Present("OLLAMA_MODEL")
                    /\ ~Present("ANTHROPIC_API_KEY")
                    /\ Present("OPENAI_API_KEY")
           /\ raised = ConfigError <=> \A n \in EnvNames : ~Present(n)
           /\ raised = ConfigError => provider = "" /\ pc = "raised"
           /\ provider = "ollama" => model_or_key = environ["OLLAMA_MODEL"].val
           /\ provider = "anthropic"
                => model_or_key = environ["ANTHROPIC_API_KEY"].val
           /\ provider = "openai" => model_or_key = environ["OPENAI_API_KEY"].val
           /\ provider \in {"", "ollama", "anthropic", "openai"}

C7_Witness ==
    /\ pc = "returned"
    /\ provider = "anthropic"
    /\ model_or_key = "sk-ant"
    /\ Present("OPENAI_API_KEY")
    /\ ~environ["OLLAMA_MODEL"].set

\* C8: the only failure that ends the run as a raised condition is the
\* configuration error of provider selection; failures of the probe and of
\* the provider call (transport, unexpected shape) are all caught.
C8_OnlyConfigErrorEscapes ==
    pc = "raised" => raised = ConfigError

\* URLs whose last path segment has no FUZZ: in an earlier segment, in the
\* query string, absent
MisplacedFuzzUrls ==
    { "https://example.com/FUZZ/docs", "https://example.com/docs?FUZZ",
      "https://example.com/docs" }

\* C9: for a URL whose final path segment lacks FUZZ, with a provider signal
\* set, the warning is printed and the run still issues the header probe and
\* then queries the provider; the warning never ends the run.
C9_WarningDoesNotStopRun ==
    (url \in MisplacedFuzzUrls /\ pc # "check_fuzz")
        => /\ Len(stdout) >= 1
           /\ stdout[1] = "Warning: FUZZ keyword is not at the end of the URL path."
           /\ pc # "get_headers"
                => Len(calls) >= 1 /\ calls[1] = "HEAD" /\ head_request # ""
           /\ (/\ \E n \in EnvNames : Present(n)
               /\ pc \notin {"get_headers", "get_llm_provider", "get_ai_extensions"})
                => /\ Len(calls) >= 2
                   /\ calls[2] = "LLM"
                   /\ llm_request.url = url

C9_Witness ==
    /\ url = "https://example.com/docs?FUZZ"
    /\ head_request = "https://example.com/docs?"
    /\ Has(calls, "CHILD")
    /\ pc = "returned"

\* C10: the probe, the LLM call and the child process are each attempted at
\* most once, only in that order, and the child process only after an LLM
\* call whose result is not absent and holds the 'extensions' key.
C10_OnceEachInOrder ==
    /\ \E k \in 0..3 : calls = SubSeq(<<"HEAD", "LLM", "CHILD">>, 1, k)
    /\ Has(calls, "CHILD")
         => /\ llm_response.transport = "ok"
            /\ extensions_data # None
            /\ extensions_data.kind = "object"
            /\ extensions_data.has_extensions
            /\ llm_response.text.has_extensions

C10_Witness ==
    /\ calls = <<"HEAD", "LLM", "CHILD">>
    /\ pc = "returned"
    /\ provider = "ollama"

====
